---- MODULE Spec2Model ----
(***************************************************************************)
(* Model of src/api.py: the Bemlo client (login, refresh, token check,     *)
(* authenticated GraphQL request, pagination), the reconciliation of the   *)
(* fetched vacancies against the SQLite snapshot, and the /scrape handler. *)
(***************************************************************************)
EXTENDS Integers, Sequences, FiniteSets, TLC

VARIABLES
    now,             \* the wall clock, datetime.now().timestamp(), in seconds
    tokens,          \* BemloClient.tokens: <<>> is None, <<t>> an AuthTokens t
    lastCall,        \* history: the requests and calls of the last client method run
    pc,              \* position of the /scrape handler
    start_time,      \* scrape: start_time
    page,            \* fetch_all_vacancies: page
    after,           \* fetch_all_vacancies: after ("" is None)
    all_vacancies,   \* fetch_all_vacancies: all_vacancies
    idx,             \* process_vacancies: position of the for loop in vacancies
    counts,          \* process_vacancies: new_count, updated_count, ...
    new_vacancies,   \* process_vacancies: new_vacancies (the ids)
    updates,         \* process_vacancies: updates
    outcomes,        \* history: the classification of each record of this run
    conn,            \* the tables as the open connection of process_vacancies sees them
    db,              \* the committed tables of DB_PATH
    scrape_logs,     \* the committed rows of table scrape_logs
    reconciled,      \* history: per id, the record process_vacancies last classified
    served,          \* the source: the records it has handed out
    clients,         \* overlapping runs: per run, the tokens of the client it built
    runs,            \* overlapping runs: per run, the locals of its scrape call
    writer           \* overlapping runs: the run whose connection holds the
                     \* write lock of DB_PATH, 0 when none does

vars == <<now, tokens, lastCall, pc, start_time, page, after, all_vacancies, idx,
          counts, new_vacancies, updates, outcomes, conn, db, scrape_logs, reconciled,
          served, clients, runs, writer>>

(***************************************************************************)
(* Bounds of the model.                                                    *)
(***************************************************************************)
MaxNow == 1          \* the clock runs over 0..MaxNow
MaxRuns == 2         \* number of /scrape runs
MaxFetched == 2      \* records the source hands out in all
maxPages == 2        \* the page cap the specification speaks of (the code has none)
PageBound == maxPages + 1   \* pages the model lets one traversal fetch
MaxStarts == 1       \* /scrape requests each of the two overlapping run slots serves

(***************************************************************************)
(* Program constants.                                                      *)
(***************************************************************************)
ExpiryBuffer == 60        \* AuthTokens.is_expired
DefaultLifetime == 3600   \* expiry when the JWT payload cannot be decoded

(***************************************************************************)
(* Access tokens.  kind "jwt": the payload decodes and has an exp claim;   *)
(* "noexp": the payload decodes and has no exp claim; "opaque": the        *)
(* payload does not decode; "empty": the empty string / absent header.     *)
(***************************************************************************)
NoAccess == [kind |-> "empty", exp |-> 0]
NoHeaders == [access |-> NoAccess, refresh |-> "", front |-> ""]
Hdr(access, refresh, front) == [access |-> access, refresh |-> refresh, front |-> front]
Jwt(e) == [kind |-> "jwt", exp |-> e]
NoExp == [kind |-> "noexp", exp |-> 0]
Opaque == [kind |-> "opaque", exp |-> 0]

\* A decoding without the default lifetime of the except branch.
DecodeExpiryNoDefault(access_token, n) ==
    CASE access_token.kind = "jwt" -> access_token.exp
      [] OTHER -> 0

\* try: json.loads(b64decode(token.split('.')[1])).get('exp', 0)
\* except: int(now) + 3600
DecodeExpiry(access_token, n) ==
    CASE access_token.kind = "jwt" -> access_token.exp
      [] access_token.kind = "noexp" -> 0
      [] OTHER -> n + DefaultLifetime

from_headers(headers, n) ==
    [access_token |-> headers.access,
     refresh_token |-> headers.refresh,
     front_token |-> headers.front,
     expires_at |-> IF headers.access # NoAccess
                    THEN DecodeExpiry(headers.access, n) ELSE 0]

is_expired_strict(t, n) == n > t.expires_at - ExpiryBuffer

is_expired(t, n) == n >= t.expires_at - ExpiryBuffer

(***************************************************************************)
(* History events of one client call: the methods entered and the requests *)
(* posted, each request with the token it carried, its query, its variable *)
(* and the status of its response.                                         *)
(***************************************************************************)
Ev(op, tok, q, arg, status) ==
    [op |-> op, tok |-> tok, q |-> q, arg |-> arg, status |-> status]
Call(op) == Ev(op, NoAccess, "", "", 0)

\* The result of a client method: the tokens it leaves, the message of the
\* exception it raised ("" when it returned), what it did, and the JSON body
\* it returned (<<>> when none).
Result(t, error, trace, body) ==
    [tokens |-> t, error |-> error, trace |-> trace, body |-> body]
Raised(r) == r.error # ""

\* A login that drops the tokens held when the sign-in fails.
login_clearing(t, l, n) ==
    LET tr == <<Call("login()"), Ev("POST signin", NoAccess, "", "", l.status)>> IN
    IF l.status # 200 \/ ~l.ok THEN Result(<<>>, "Login failed", tr, <<>>)
    ELSE LET nt == from_headers(l.headers, n) IN
         Result(<<nt>>,
                IF nt.access_token = NoAccess
                THEN "No access token in login response" ELSE "",
                tr, <<>>)

\* BemloClient.login on the sign-in response l.
login(t, l, n) ==
    LET tr == <<Call("login()"), Ev("POST signin", NoAccess, "", "", l.status)>> IN
    IF l.status # 200 THEN Result(t, "Login failed", tr, <<>>)
    ELSE IF ~l.ok THEN Result(t, "Login failed", tr, <<>>)
    ELSE LET nt == from_headers(l.headers, n) IN
         Result(<<nt>>,
                IF nt.access_token = NoAccess
                THEN "No access token in login response" ELSE "",
                tr, <<>>)

\* The results of login() over the sign-in responses of environment E.
LoginResults(t, n, E) == {login(t, l, n) : l \in E.login}

Prepend(tr, R) == {[r EXCEPT !.trace = tr \o r.trace] : r \in R}

\* Tokens built from the response headers alone, nothing kept of the old ones.
refreshed_overwrite(t, headers, n) ==
    [access_token |-> headers.access,
     refresh_token |-> headers.refresh,
     front_token |-> headers.front,
     expires_at |-> DecodeExpiry(headers.access, n)]

\* The tokens refresh() builds from a 200 response that carries an access token.
refreshed(t, headers, n) ==
    [access_token |-> headers.access,
     refresh_token |-> IF headers.refresh # "" THEN headers.refresh ELSE t.refresh_token,
     front_token |-> IF headers.front # "" THEN headers.front ELSE t.front_token,
     expires_at |-> DecodeExpiry(headers.access, n)]

\* A refresh() that posts to the refresh endpoint whenever tokens are held,
\* with or without a refresh token.
refresh_any_token(t, n, E) ==
    IF t = <<>>
    THEN Prepend(<<Call("refresh()")>>, LoginResults(t, n, E))
    ELSE UNION {
           LET tr == <<Call("refresh()"),
                       Ev("POST refresh", NoAccess, "", t[1].refresh_token, r.status)>> IN
           IF r.status # 200 THEN Prepend(tr, LoginResults(t, n, E))
           ELSE IF r.headers.access = NoAccess THEN Prepend(tr, LoginResults(t, n, E))
           ELSE {Result(<<refreshed(t[1], r.headers, n)>>, "", tr, <<>>)}
           : r \in E.refresh }

refresh_no_fallback(t, n, E) ==
    IF t = <<>> \/ t[1].refresh_token = ""
    THEN Prepend(<<Call("refresh()")>>, LoginResults(t, n, E))
    ELSE UNION {
           LET tr == <<Call("refresh()"),
                       Ev("POST refresh", NoAccess, "", t[1].refresh_token, r.status)>> IN
           IF r.status # 200 THEN {Result(t, "Refresh failed", tr, <<>>)}
           ELSE IF r.headers.access = NoAccess THEN Prepend(tr, LoginResults(t, n, E))
           ELSE {Result(<<refreshed(t[1], r.headers, n)>>, "", tr, <<>>)}
           : r \in E.refresh }

\* BemloClient.refresh: the set of its results over the responses of E.
refresh(t, n, E) ==
    IF t = <<>> \/ t[1].refresh_token = ""
    THEN Prepend(<<Call("refresh()")>>, LoginResults(t, n, E))
    ELSE UNION {
           LET tr == <<Call("refresh()"),
                       Ev("POST refresh", NoAccess, "", t[1].refresh_token, r.status)>> IN
           IF r.status # 200 THEN Prepend(tr, LoginResults(t, n, E))
           ELSE IF r.headers.access = NoAccess THEN Prepend(tr, LoginResults(t, n, E))
           ELSE {Result(<<refreshed(t[1], r.headers, n)>>, "", tr, <<>>)}
           : r \in E.refresh }

\* BemloClient.ensure_valid_token.
ensure_valid_token(t, n, E) ==
    IF t = <<>> THEN LoginResults(t, n, E)
    ELSE IF is_expired(t[1], n) THEN refresh(t, n, E)
    ELSE {Result(t, "", <<>>, <<>>)}

\* A POST that sends no variables.
PostNoVariables(r, q, arg, g) ==
    [r EXCEPT !.trace = @ \o <<Ev("POST graphql", r.tokens[1].access_token, q, "", g.status)>>]

\* The POST of _make_request with the access token now held, answered by g.
Post(r, q, arg, g) ==
    [r EXCEPT !.trace = @ \o <<Ev("POST graphql", r.tokens[1].access_token, q, arg, g.status)>>]

\* _make_request from the response to its POST on: raise unless the status is 200.
Answer(p, g) ==
    IF g.status # 200 THEN [p EXCEPT !.error = "GraphQL request failed"]
    ELSE [p EXCEPT !.body = <<g.body>>]

\* A _make_request whose retry carries the access token that was rejected.
AfterFirstStale(e, q, arg, g1, n, E) ==
    LET p1 == Post(e, q, arg, g1) IN
    IF g1.status = 401
    THEN UNION { LET f1 == [f EXCEPT !.trace = p1.trace \o @] IN
                 IF Raised(f) THEN {f1}
                 ELSE {Answer([f1 EXCEPT !.trace = @ \o <<Ev("POST graphql",
                                                             e.tokens[1].access_token,
                                                             q, arg, g2.status)>>], g2)
                       : g2 \in E.gql[q]}
                 : f \in refresh(p1.tokens, n, E) }
    ELSE {Answer(p1, g1)}

\* A _make_request that refreshes and retries on every status other than 200.
AfterFirstRetryAny(e, q, arg, g1, n, E) ==
    LET p1 == Post(e, q, arg, g1) IN
    IF g1.status # 200
    THEN UNION { LET f1 == [f EXCEPT !.trace = p1.trace \o @] IN
                 IF Raised(f) THEN {f1}
                 ELSE {Answer(Post(f1, q, arg, g2), g2) : g2 \in E.gql[q]}
                 : f \in refresh(p1.tokens, n, E) }
    ELSE {Answer(p1, g1)}

\* A _make_request that answers a 401 on the retry with one more POST.
AfterFirstAgain(e, q, arg, g1, n, E) ==
    LET p1 == Post(e, q, arg, g1) IN
    IF g1.status = 401
    THEN UNION { LET f1 == [f EXCEPT !.trace = p1.trace \o @] IN
                 IF Raised(f) THEN {f1}
                 ELSE UNION { LET p2 == Post(f1, q, arg, g2) IN
                              IF g2.status = 401
                              THEN {Answer(Post(p2, q, arg, g3), g3) : g3 \in E.gql[q]}
                              ELSE {Answer(p2, g2)}
                              : g2 \in E.gql[q] }
                 : f \in refresh(p1.tokens, n, E) }
    ELSE {Answer(p1, g1)}

\* _make_request after ensure_valid_token returned e and the first POST was
\* answered by g1.
AfterFirst(e, q, arg, g1, n, E) ==
    LET p1 == Post(e, q, arg, g1) IN
    IF g1.status = 401
    THEN UNION { LET f1 == [f EXCEPT !.trace = p1.trace \o @] IN
                 IF Raised(f) THEN {f1}
                 ELSE {Answer(Post(f1, q, arg, g2), g2) : g2 \in E.gql[q]}
                 : f \in refresh(p1.tokens, n, E) }
    ELSE {Answer(p1, g1)}

\* BemloClient._make_request(query, variables): the set of its results.
make_request(t, n, q, arg, E) ==
    UNION { IF Raised(e) THEN {e}
            ELSE UNION {AfterFirst(e, q, arg, g1, n, E) : g1 \in E.gql[q]}
            : e \in ensure_valid_token(t, n, E) }

(***************************************************************************)
(* The remote service: what the sign-in endpoint, the refresh endpoint and *)
(* the GraphQL endpoint may answer.                                        *)
(***************************************************************************)
LoginResponses(H) ==
    {[status |-> 200, ok |-> TRUE, headers |-> h] : h \in H}
      \cup {[status |-> 200, ok |-> FALSE, headers |-> NoHeaders],
            [status |-> 401, ok |-> FALSE, headers |-> NoHeaders]}

RefreshResponses(H, S) ==
    {[status |-> 200, headers |-> h] : h \in H}
      \cup {[status |-> s, headers |-> NoHeaders] : s \in S}

\* The vacancies the source lists: the fields save_vacancy and
\* process_vacancies read, with tender.id, tender.fillRate (in tenths),
\* tender.dynamicStatus and tender.unit flattened.  unit is "null" when
\* tender.unit is null; no vacancy has a municipality of its own.
Ids == {"v1", "v2"}
Base(i) == [id |-> i, title |-> "t1", procuredAmount |-> 100,
            tender_id |-> IF i = "v1" THEN "T1" ELSE "",
            fillRate |-> 5, dynamicStatus |-> "OPEN", unit |-> "u1"]
Nodes == {Base("v1"), Base("v2"),
          [Base("v2") EXCEPT !.unit = "null", !.tender_id = "T2"],
          [Base("v1") EXCEPT !.fillRate = 8],
          [Base("v1") EXCEPT !.dynamicStatus = "FILLED"],
          [Base("v1") EXCEPT !.procuredAmount = 200],
          [Base("v1") EXCEPT !.title = "t2"]}

\* A 200 body is {data: {...}} ("data"), {errors: [...]} without a data key
\* ("errors"), or {data: null, errors: [...]} ("nulldata").
\* Bodies of VACANCIES_LIST_QUERY: an edge is <<node>>, or <<>> for an edge
\* whose node is empty; hasNextPage is "true", "false" or "absent".
ListBody(kind, edges, hasNextPage, endCursor) ==
    [kind |-> kind, edges |-> edges, hasNextPage |-> hasNextPage, endCursor |-> endCursor]
PageInfos == {<<"true", "c1">>, <<"true", "">>, <<"false", "c1">>, <<"absent", "">>}
ListBodies ==
    {ListBody("data", e, i[1], i[2]) :
        e \in {<<>>, << <<>> >>} \cup {<< <<n>> >> : n \in Nodes}, i \in PageInfos}
      \cup {ListBody("data", << <<Base("v1")>>, <<>>, <<Base("v2")>> >>, "false", "c1")}
      \cup {ListBody("errors", <<>>, "absent", ""), ListBody("nulldata", <<>>, "absent", "")}

\* Bodies of VACANCY_DETAIL_QUERY: vacancy is <<>> (null) or <<v>>.
DetailBody(kind, vacancy) == [kind |-> kind, vacancy |-> vacancy]
DetailBodies ==
    {DetailBody("data", <<>>),
     DetailBody("data", <<[description |-> "d1", requirements |-> {"q1"}, priceGroups |-> {"p1"}]>>),
     DetailBody("data", <<[description |-> "d2", requirements |-> {}, priceGroups |-> {}]>>),
     DetailBody("errors", <<>>), DetailBody("nulldata", <<>>)}

\* Bodies of TENDER_SCHEDULE_QUERY: tender is <<>> (null) or <<vacantSchedule>>.
ScheduleBody(kind, tender) == [kind |-> kind, tender |-> tender]
ScheduleBodies ==
    {ScheduleBody("data", <<>>), ScheduleBody("data", <<{"s1"}>>),
     ScheduleBody("data", <<{}>>),
     ScheduleBody("errors", <<>>), ScheduleBody("nulldata", <<>>)}

GqlResponses(bodies, S) ==
    {[status |-> 200, body |-> b] : b \in bodies}
      \cup {[status |-> s, body |-> <<>>] : s \in S}

\* The service as the scrape pipeline meets it: every kind of body and a
\* failure status on each query, the tokens it issues long-lived.
Service ==
    [login |-> LoginResponses({Hdr(Jwt(1000), "r1", "f1"), NoHeaders}),
     refresh |-> RefreshResponses({Hdr(Jwt(1000), "r1", "f1")}, {}),
     gql |-> [q \in {"list", "detail", "schedule"} |->
                CASE q = "list" -> GqlResponses(ListBodies, {500})
                  [] q = "detail" -> GqlResponses(DetailBodies, {500})
                  [] OTHER -> GqlResponses(ScheduleBodies, {500})]]

\* The service as a client meets it when its methods are called one by one:
\* tokens of every kind, with and without refresh and front token, every
\* status on every endpoint.
Identity ==
    [login |-> LoginResponses({Hdr(Jwt(61), "r1", "f1"), Hdr(Jwt(1000), "", ""),
                               Hdr(NoExp, "", "f1"), Hdr(Opaque, "r1", ""), NoHeaders}),
     refresh |-> RefreshResponses({Hdr(Jwt(1000), "r2", ""), Hdr(Jwt(61), "", "f2"),
                                   Hdr(Opaque, "r2", "f2"), NoHeaders}, {401, 500}),
     gql |-> [q \in {"list", "detail", "schedule"} |->
                GqlResponses({ListBody("data", <<>>, "absent", ""),
                              ListBody("errors", <<>>, "absent", "")}, {401, 500})]]

(***************************************************************************)
(* The SQLite tables.  vacancies[i] is <<>> when no row has id i, else     *)
(* <<row>>; the three child tables hold, per vacancy_id, the ids of its    *)
(* rows.  The detail columns save_vacancy_details writes are one field,    *)
(* details: <<>> while they are NULL.                                      *)
(***************************************************************************)
EmptyTables ==
    [vacancies |-> [i \in Ids |-> <<>>],
     requirements |-> [i \in Ids |-> {}],
     price_groups |-> [i \in Ids |-> {}],
     shifts |-> [i \in Ids |-> {}]]

Row(vacancy, first_seen_at, n) ==
    [tender_id |-> vacancy.tender_id,
     title |-> vacancy.title,
     dynamic_status |-> vacancy.dynamicStatus,
     procured_amount |-> vacancy.procuredAmount,
     fill_rate |-> vacancy.fillRate,
     first_seen_at |-> first_seen_at,
     last_updated_at |-> n,
     details |-> <<>>]

save_vacancy_restamp(c, vacancy, is_new, n) ==
    [c EXCEPT !.vacancies[vacancy.id] = <<Row(vacancy, n, n)>>]

\* save_vacancy: INSERT OR REPLACE of the whole row.
save_vacancy(c, vacancy, is_new, n) ==
    [c EXCEPT !.vacancies[vacancy.id] =
        <<Row(vacancy,
              IF is_new THEN n ELSE c.vacancies[vacancy.id][1].first_seen_at,
              n)>>]

\* The ids a child table holds under other vacancies: an INSERT of one of them
\* violates the table's PRIMARY KEY.
Others(table, vacancy_id) == UNION {table[i] : i \in Ids \ {vacancy_id}}

\* save_vacancy_details: [c, error], the tables it leaves and the exception
\* it raised, if any.
save_vacancy_details(c, vacancy_id, details, n) ==
    IF details.kind = "nulldata"
    THEN [c |-> c, error |-> "'NoneType' object has no attribute 'get'"]
    ELSE IF details.kind # "data" \/ details.vacancy = <<>> THEN [c |-> c, error |-> ""]
    ELSE LET vacancy == details.vacancy[1]
             c1 == [c EXCEPT !.vacancies[vacancy_id] =
                       IF @ = <<>> THEN @
                       ELSE <<[@[1] EXCEPT !.details =
                                 <<[description |-> vacancy.description,
                                    details_fetched_at |-> n]>>]>>]
             c2 == [c1 EXCEPT !.requirements[vacancy_id] = {}]
         IN IF vacancy.requirements \cap Others(c.requirements, vacancy_id) # {}
            THEN [c |-> c2, error |-> "UNIQUE constraint failed"]
            ELSE LET c3 == [c2 EXCEPT !.requirements[vacancy_id] = vacancy.requirements,
                                      !.price_groups[vacancy_id] = {}]
                 IN IF vacancy.priceGroups \cap Others(c.price_groups, vacancy_id) # {}
                    THEN [c |-> c3, error |-> "UNIQUE constraint failed"]
                    ELSE [c |-> [c3 EXCEPT !.price_groups[vacancy_id] = vacancy.priceGroups],
                          error |-> ""]

\* save_shifts: [c, error, saved], saved the number of shifts it returns.
save_shifts(c, vacancy_id, tender_id, schedule_data) ==
    IF schedule_data.kind = "nulldata"
    THEN [c |-> c, error |-> "'NoneType' object has no attribute 'get'", saved |-> 0]
    ELSE IF schedule_data.kind # "data" \/ schedule_data.tender = <<>>
    THEN [c |-> c, error |-> "", saved |-> 0]
    ELSE LET vacant_schedule == schedule_data.tender[1]
             c1 == [c EXCEPT !.shifts[vacancy_id] = {}]
         IN IF vacant_schedule \cap Others(c.shifts, vacancy_id) # {}
            THEN [c |-> c1, error |-> "UNIQUE constraint failed", saved |-> 0]
            ELSE [c |-> [c1 EXCEPT !.shifts[vacancy_id] = vacant_schedule],
                  error |-> "", saved |-> Cardinality(vacant_schedule)]

(***************************************************************************)
(* process_vacancies, one record of the for loop.                          *)
(***************************************************************************)
ZeroCounts ==
    [new_count |-> 0, updated_count |-> 0, unchanged_count |-> 0,
     details_fetched |-> 0, shifts_fetched |-> 0]

\* The child rows a detail body and a schedule body carry: none when the
\* vacancy or the tender of the body is null or absent.
NoRows == [requirements |-> {}, price_groups |-> {}, shifts |-> {}]
DetailRows(details) ==
    IF details.kind = "data" /\ details.vacancy # <<>>
    THEN [requirements |-> details.vacancy[1].requirements,
          price_groups |-> details.vacancy[1].priceGroups,
          shifts |-> {}]
    ELSE NoRows
ScheduleRows(schedule_data) ==
    IF schedule_data.kind = "data" /\ schedule_data.tender # <<>>
    THEN schedule_data.tender[1] ELSE {}

\* The try block: fetch_vacancy_details, save_vacancy_details,
\* fetch_tender_schedule, save_shifts; an exception ends it and is printed.
\* rows holds the child rows of the bodies the block was given.
Detail(c, t, details_fetched, shifts_fetched, last, error, rows) ==
    [c |-> c, tokens |-> t, details_fetched |-> details_fetched,
     shifts_fetched |-> shifts_fetched, last |-> last, error |-> error, rows |-> rows]

\* A try block that undoes the save of the record when it ends in an exception.
FetchDetailsUndoing(c, t, vacancy, n, E) ==
    LET gone == [c EXCEPT !.vacancies[vacancy.id] = <<>>] IN
    UNION {
      IF Raised(d) THEN {Detail(gone, d.tokens, 0, 0, d, d.error, NoRows)}
      ELSE LET sd == save_vacancy_details(c, vacancy.id, d.body[1], n) IN
           IF sd.error # ""
           THEN {Detail(gone, d.tokens, 0, 0, d, sd.error, DetailRows(d.body[1]))}
           ELSE UNION {
                  IF Raised(s)
                  THEN {Detail(gone, s.tokens, 1, 0, s, s.error, DetailRows(d.body[1]))}
                  ELSE LET ss == save_shifts(sd.c, vacancy.id, vacancy.tender_id, s.body[1]) IN
                       {Detail(IF ss.error # "" THEN gone ELSE ss.c, s.tokens, 1, ss.saved, s,
                               ss.error,
                               [DetailRows(d.body[1]) EXCEPT
                                   !.shifts = ScheduleRows(s.body[1])])}
                  : s \in make_request(d.tokens, n, "schedule", vacancy.tender_id, E) }
      : d \in make_request(t, n, "detail", vacancy.id, E) }

FetchDetails(c, t, vacancy, n, E) ==
    UNION {
      IF Raised(d) THEN {Detail(c, d.tokens, 0, 0, d, d.error, NoRows)}
      ELSE LET sd == save_vacancy_details(c, vacancy.id, d.body[1], n) IN
           IF sd.error # ""
           THEN {Detail(sd.c, d.tokens, 0, 0, d, sd.error, DetailRows(d.body[1]))}
           ELSE UNION {
                  IF Raised(s)
                  THEN {Detail(sd.c, s.tokens, 1, 0, s, s.error, DetailRows(d.body[1]))}
                  ELSE LET ss == save_shifts(sd.c, vacancy.id, vacancy.tender_id, s.body[1]) IN
                       {Detail(ss.c, s.tokens, 1, ss.saved, s, ss.error,
                               [DetailRows(d.body[1]) EXCEPT
                                   !.shifts = ScheduleRows(s.body[1])])}
                  : s \in make_request(d.tokens, n, "schedule", vacancy.tender_id, E) }
      : d \in make_request(t, n, "detail", vacancy.id, E) }

\* No detail fetch for this record.
NoDetails(c, t) == {Detail(c, t, 0, 0, Result(t, "", <<>>, <<>>), "", NoRows)}

\* Whether a turn of the loop enters its try block: for a new record that has
\* a tender id, and for an updated one that has a tender id and whose status
\* changed.
WantsDetailsOnUpdate(existing, vacancy, is_new, is_update) ==
    (is_new \/ is_update) /\ vacancy.tender_id # ""

WantsDetails(existing, vacancy, is_new, is_update) ==
    IF is_new THEN vacancy.tender_id # ""
    ELSE /\ is_update
         /\ existing[1].dynamic_status # vacancy.dynamicStatus
         /\ vacancy.tender_id # ""

\* The write of a turn of the loop: save_vacancy for a new or an updated
\* record, nothing for an unchanged one.
SavedAlways(c, vacancy, is_new, is_update, n) == save_vacancy(c, vacancy, is_new, n)

Saved(c, vacancy, is_new, is_update, n) ==
    IF is_new \/ is_update THEN save_vacancy(c, vacancy, is_new, n) ELSE c

\* old_fill_rate != new_fill_rate or old_status != new_status
changed(existing, vacancy) ==
    \/ existing.fill_rate # vacancy.fillRate
    \/ existing.dynamic_status # vacancy.dynamicStatus

\* The entry appended to updates.
changes_swapped(existing, vacancy) ==
    [fill_rate |-> [old |-> vacancy.fillRate, new |-> existing.fill_rate],
     status |-> [old |-> vacancy.dynamicStatus, new |-> existing.dynamic_status]]

changes(existing, vacancy) ==
    [fill_rate |-> [old |-> existing.fill_rate, new |-> vacancy.fillRate],
     status |-> [old |-> existing.dynamic_status, new |-> vacancy.dynamicStatus]]

\* What outcomes holds of a record of the loop: its id, its classification,
\* whether the try block ran, the exception that ended the try block, and the
\* child rows of the bodies the try block was given.
Outcome(id, class, detail, error, rows) ==
    [id |-> id, class |-> class, detail |-> detail, error |-> error, rows |-> rows]

(***************************************************************************)
(* The /scrape handler.                                                    *)
(***************************************************************************)
\* A log row whose total leaves out the unchanged records.
LogRowOfWrites(timestamp, total_fetched, c, error) ==
    [timestamp |-> timestamp, total_fetched |-> c.new_count + c.updated_count,
     new_count |-> c.new_count, updated_count |-> c.updated_count,
     details_fetched |-> c.details_fetched, shifts_fetched |-> c.shifts_fetched,
     error |-> error]

LogRow(timestamp, total_fetched, c, error) ==
    [timestamp |-> timestamp, total_fetched |-> total_fetched,
     new_count |-> c.new_count, updated_count |-> c.updated_count,
     details_fetched |-> c.details_fetched, shifts_fetched |-> c.shifts_fetched,
     error |-> error]

\* What lastCall holds of the client method a step ran: the method, the tokens
\* held before it, the clock, what it did, the exception it raised and the
\* kind of the body it returned.
CallRecord(op, before, r) ==
    [op |-> op, before |-> before, at |-> now, trace |-> r.trace, error |-> r.error,
     returned |-> IF r.body = <<>> THEN "" ELSE r.body[1].kind, body |-> r.body]
NoCall == [op |-> "", before |-> <<>>, at |-> 0, trace |-> <<>>, error |-> "",
           returned |-> "", body |-> <<>>]

\* Overlapping runs: POST /scrape is served by app.run, one thread per request,
\* and scrape has no guard against a second request while one is running.
Runs == {1, 2}

\* The locals of a scrape call that is not running; started counts the calls
\* the run slot has served.  seen and held are history: the tokens the run's
\* client held when its last client call began, and those the call left.
IdleRun(n) ==
    [pc |-> "idle", started |-> n, start_time |-> 0, seen |-> <<>>, held |-> <<>>,
     vacancies |-> <<>>, idx |-> 0, existing |-> <<>>, conn |-> EmptyTables,
     counts |-> ZeroCounts, classes |-> <<>>, error |-> ""]

Init ==
    /\ now = 0
    /\ tokens = <<>>
    /\ lastCall = NoCall
    /\ pc = "idle"
    /\ start_time = 0
    /\ page = 0
    /\ after = ""
    /\ all_vacancies = <<>>
    /\ idx = 0
    /\ counts = ZeroCounts
    /\ new_vacancies = <<>>
    /\ updates = <<>>
    /\ outcomes = <<>>
    /\ conn = EmptyTables
    /\ db = EmptyTables
    /\ scrape_logs = <<>>
    /\ reconciled = [i \in Ids |-> <<>>]
    /\ served = 0
    /\ clients = [r \in Runs |-> <<>>]
    /\ runs = [r \in Runs |-> IdleRun(0)]
    /\ writer = 0

\* What a step of the single handler, or of a client called on its own, leaves
\* alone.
Alone == UNCHANGED <<clients, runs, writer>>

\* Time passes.
Tick ==
    /\ now < MaxNow
    /\ now' = now + 1
    /\ lastCall' = NoCall
    /\ UNCHANGED <<tokens, pc, start_time, page, after, all_vacancies, idx,
                   counts, new_vacancies, updates, outcomes, conn, db, scrape_logs,
                   reconciled, served>>
    /\ Alone

\* The locals of scrape, fetch_all_vacancies and process_vacancies and the
\* client, gone when scrape returns.
Reset ==
    /\ tokens' = <<>>
    /\ start_time' = 0
    /\ page' = 0
    /\ after' = ""
    /\ all_vacancies' = <<>>
    /\ idx' = 0
    /\ counts' = ZeroCounts
    /\ new_vacancies' = <<>>
    /\ updates' = <<>>
    /\ outcomes' = <<>>

\* An except branch that swallows the exception and goes on to
\* process_vacancies with the vacancies fetched so far.
FailKeepFetched(error) ==
    /\ pc' = "process"
    /\ idx' = 1
    /\ conn' = db
    /\ page' = 0
    /\ after' = ""
    /\ UNCHANGED <<now, db, tokens, start_time, all_vacancies, counts, new_vacancies,
                   updates, outcomes, scrape_logs>>

\* An except branch that logs the failure and goes on to process_vacancies.
FailLoggedThenProcess(error) ==
    /\ scrape_logs' = Append(scrape_logs, [timestamp |-> start_time, total_fetched |-> 0,
                                           new_count |-> 0, updated_count |-> 0,
                                           details_fetched |-> 0, shifts_fetched |-> 0,
                                           error |-> error])
    /\ pc' = "process"
    /\ idx' = 1
    /\ conn' = db
    /\ page' = 0
    /\ after' = ""
    /\ UNCHANGED <<now, db, tokens, start_time, all_vacancies, counts, new_vacancies,
                   updates, outcomes>>

\* scrape: the except branch; the row logged has zero counts and the message.
Fail(error) ==
    /\ scrape_logs' = Append(scrape_logs, LogRow(start_time, 0, ZeroCounts, error))
    /\ pc' = "idle"
    /\ Reset
    /\ conn' = db
    /\ UNCHANGED <<now, db>>

\* scrape: the except branch entered while process_vacancies has a write
\* pending.  The traceback of the exception keeps the frame of
\* process_vacancies, and with it its connection and the write lock of its
\* open transaction; the branch's own connection cannot write, its INSERT
\* raises "database is locked" when the busy timeout of sqlite3.connect runs
\* out, and scrape raises without a row logged.  The pending writes are rolled
\* back when the frame is released.
FailLocked ==
    /\ scrape_logs' = scrape_logs
    /\ pc' = "idle"
    /\ Reset
    /\ conn' = db
    /\ UNCHANGED <<now, db>>

\* POST /scrape arrives: init_db, start_time, a new BemloClient.
StartScrape ==
    /\ pc = "idle"
    /\ Len(scrape_logs) < MaxRuns
    /\ pc' = "login"
    /\ start_time' = now
    /\ tokens' = <<>>
    /\ lastCall' = NoCall
    /\ UNCHANGED <<now, page, after, all_vacancies, idx, counts, new_vacancies, updates,
                   outcomes, conn, db, scrape_logs, reconciled, served>>
    /\ Alone

\* scrape: client.login()
ScrapeLogin ==
    /\ pc = "login"
    /\ \E r \in LoginResults(tokens, now, Service) :
         /\ lastCall' = CallRecord("login", tokens, r)
         /\ IF Raised(r) THEN Fail(r.error)
            ELSE /\ pc' = "fetch"
                 /\ tokens' = r.tokens
                 /\ UNCHANGED <<now, start_time, page, after, all_vacancies, idx, counts,
                                new_vacancies, updates, outcomes, conn, db, scrape_logs>>
    /\ UNCHANGED <<reconciled, served>>
    /\ Alone

\* The nodes of the edges of a page, in order, empty nodes left out.
NodesOf(edges) ==
    LET RECURSIVE F(_)
        F(s) == IF s = <<>> THEN <<>> ELSE s[1] \o F(Tail(s))
    IN F(edges)

\* all_vacancies after the nodes of a page were appended to it.
CollectedInFront(all, edges) == NodesOf(edges) \o all

Collected(all, edges) == all \o NodesOf(edges)

\* fetch_all_vacancies: one turn of the while loop.
FetchPage ==
    /\ pc = "fetch"
    /\ page < PageBound
    /\ UNCHANGED reconciled
    /\ Alone
    /\ \E r \in make_request(tokens, now, "list", after, Service) :
         /\ lastCall' = CallRecord("_make_request", tokens, r)
         /\ IF Raised(r) THEN Fail(r.error) /\ UNCHANGED served
            ELSE LET result == r.body[1] IN
                 IF result.kind = "nulldata"
                 THEN Fail("'NoneType' object has no attribute 'get'") /\ UNCHANGED served
                 ELSE LET edges == IF result.kind = "data" THEN result.edges ELSE <<>>
                          hasNextPage == IF result.kind = "data"
                                         THEN result.hasNextPage ELSE "absent"
                          endCursor == IF result.kind = "data" THEN result.endCursor ELSE ""
                      IN /\ served + Len(NodesOf(edges)) <= MaxFetched
                         /\ tokens' = r.tokens
                         /\ served' = served + Len(NodesOf(edges))
                         /\ all_vacancies' = Collected(all_vacancies, edges)
                         /\ IF hasNextPage # "true"
                            THEN /\ pc' = "process"
                                 /\ idx' = 1
                                 /\ conn' = db
                                 /\ page' = 0
                                 /\ after' = ""
                            ELSE /\ page' = page + 1
                                 /\ after' = endCursor
                                 /\ UNCHANGED <<pc, idx, conn>>
                         /\ UNCHANGED <<now, start_time, counts, new_vacancies, updates,
                                        outcomes, db, scrape_logs>>

\* process_vacancies: one turn of the for loop.  The entry appended to
\* new_vacancies reads tender.unit.municipality: an AttributeError when
\* tender.unit is null, raised after save_vacancy and outside the try block,
\* so with the INSERT of save_vacancy pending on conn.
ProcessVacancy ==
    /\ pc = "process"
    /\ idx <= Len(all_vacancies)
    /\ LET vacancy == all_vacancies[idx]
           existing == conn.vacancies[vacancy.id]
           is_new == existing = <<>>
           is_update == ~is_new /\ changed(existing[1], vacancy)
           saved == Saved(conn, vacancy, is_new, is_update, now)
           fetch == WantsDetails(existing, vacancy, is_new, is_update)
       IN /\ reconciled' = [reconciled EXCEPT ![vacancy.id] = <<vacancy>>]
          /\ IF is_new /\ vacancy.unit = "null"
             THEN /\ FailLocked
                  /\ lastCall' = NoCall
             ELSE \E d \in (IF fetch THEN FetchDetails(saved, tokens, vacancy, now, Service)
                            ELSE NoDetails(saved, tokens)) :
                    /\ conn' = d.c
                    /\ tokens' = d.tokens
                    /\ lastCall' = IF fetch THEN CallRecord("_make_request", tokens, d.last)
                                   ELSE NoCall
                    /\ counts' = [new_count |-> counts.new_count + (IF is_new THEN 1 ELSE 0),
                                  updated_count |->
                                      counts.updated_count + (IF is_update THEN 1 ELSE 0),
                                  unchanged_count |->
                                      counts.unchanged_count
                                        + (IF is_new \/ is_update THEN 0 ELSE 1),
                                  details_fetched |->
                                      counts.details_fetched + d.details_fetched,
                                  shifts_fetched |->
                                      counts.shifts_fetched + d.shifts_fetched]
                    /\ new_vacancies' = IF is_new THEN Append(new_vacancies, vacancy.id)
                                        ELSE new_vacancies
                    /\ updates' = IF is_update
                                  THEN Append(updates,
                                              [id |-> vacancy.id,
                                               changes |-> changes(existing[1], vacancy)])
                                  ELSE updates
                    /\ outcomes' = Append(outcomes,
                                          Outcome(vacancy.id,
                                                  IF is_new THEN "New"
                                                  ELSE IF is_update THEN "Updated"
                                                  ELSE "Unchanged",
                                                  fetch, d.error, d.rows))
                    /\ idx' = idx + 1
                    /\ UNCHANGED <<now, pc, start_time, page, after, all_vacancies, db,
                                   scrape_logs>>
    /\ UNCHANGED served
    /\ Alone

\* process_vacancies: conn.commit() after the loop and the return of the
\* stats; scrape: the INSERT into scrape_logs and its commit.
FinishRun ==
    /\ pc = "process"
    /\ idx > Len(all_vacancies)
    /\ db' = conn
    /\ scrape_logs' = Append(scrape_logs,
                             LogRow(start_time, Len(all_vacancies), counts, ""))
    /\ pc' = "respond"
    /\ lastCall' = NoCall
    /\ UNCHANGED <<now, tokens, start_time, page, after, all_vacancies, idx, counts,
                   new_vacancies, updates, outcomes, conn, reconciled, served>>
    /\ Alone

\* scrape: the response is built from vacancies and result and returned.
Respond ==
    /\ pc = "respond"
    /\ pc' = "idle"
    /\ Reset
    /\ lastCall' = NoCall
    /\ UNCHANGED <<now, conn, db, scrape_logs, reconciled, served>>
    /\ Alone

(***************************************************************************)
(* A BemloClient whose methods are called one by one, in any order, the    *)
(* caller taking each result before the next call.                         *)
(***************************************************************************)
Frame == UNCHANGED <<pc, start_time, page, after, all_vacancies, idx, counts,
                     new_vacancies, updates, outcomes, conn, db, scrape_logs, reconciled,
                     served, clients, runs, writer>>

\* BemloClient(email, password)
Construct ==
    /\ tokens # <<>>
    /\ lastCall = NoCall
    /\ tokens' = <<>>
    /\ UNCHANGED lastCall
    /\ UNCHANGED now
    /\ Frame

CallLogin ==
    /\ lastCall = NoCall
    /\ \E r \in LoginResults(tokens, now, Identity) :
         /\ tokens' = r.tokens
         /\ lastCall' = CallRecord("login", tokens, r)
    /\ UNCHANGED now
    /\ Frame

CallRefresh ==
    /\ lastCall = NoCall
    /\ \E r \in refresh(tokens, now, Identity) :
         /\ tokens' = r.tokens
         /\ lastCall' = CallRecord("refresh", tokens, r)
    /\ UNCHANGED now
    /\ Frame

CallEnsureValidToken ==
    /\ lastCall = NoCall
    /\ \E r \in ensure_valid_token(tokens, now, Identity) :
         /\ tokens' = r.tokens
         /\ lastCall' = CallRecord("ensure_valid_token", tokens, r)
    /\ UNCHANGED now
    /\ Frame

CallMakeRequest ==
    /\ lastCall = NoCall
    /\ \E r \in make_request(tokens, now, "list", "", Identity) :
         /\ tokens' = r.tokens
         /\ lastCall' = CallRecord("_make_request", tokens, r)
    /\ UNCHANGED now
    /\ Frame

\* The caller has the result of the call.
Return ==
    /\ lastCall # NoCall
    /\ lastCall' = NoCall
    /\ UNCHANGED tokens
    /\ UNCHANGED now
    /\ Frame

NextClient ==
    \/ Tick
    \/ Construct
    \/ CallLogin
    \/ CallRefresh
    \/ CallEnsureValidToken
    \/ CallMakeRequest
    \/ Return

SpecClient == Init /\ [][NextClient]_vars

Next ==
    \/ Tick
    \/ StartScrape
    \/ ScrapeLogin
    \/ FetchPage
    \/ ProcessVacancy
    \/ FinishRun
    \/ Respond

Spec == Init /\ [][Next]_vars

(***************************************************************************)
(* Two overlapping /scrape requests.  Each runs scrape on a thread of its  *)
(* own, with its own client and its own connections to DB_PATH; SQLite     *)
(* lets every connection read the committed tables and one connection at   *)
(* a time write.  A connection takes the write lock at its first INSERT    *)
(* and keeps it until it commits; another connection that wants to write   *)
(* meanwhile waits, and raises "database is locked" when the busy timeout  *)
(* of sqlite3.connect (5 s by default) runs out.  The source answers one   *)
(* page of one record that has no tender id, so no detail is fetched.      *)
(***************************************************************************)
\* A client built once for the module and used by every run.
ClientOfFirst(r) == 1

\* scrape: client = BemloClient(...), a local of the call.
ClientOf(r) == r

Apart == UNCHANGED <<tokens, lastCall, pc, start_time, page, after, all_vacancies, idx,
                     counts, new_vacancies, updates, outcomes, conn, reconciled, served>>

\* The service as two overlapping runs meet it: each sign-in is given one of
\* two sessions, a refresh a third; the list is one page of one record, or 401.
Shared ==
    [login |-> LoginResponses({Hdr(Jwt(1000), "r1", "f1"), Hdr(Jwt(2000), "r2", "f2")}),
     refresh |-> RefreshResponses({Hdr(Jwt(3000), "r3", "f3")}, {}),
     gql |-> [q \in {"list", "detail", "schedule"} |->
                GqlResponses({ListBody("data", << <<n>> >>, "false", "") :
                                 n \in {Base("v2"), [Base("v2") EXCEPT !.fillRate = 8]}},
                             {401})]]

\* The tables as a statement of run r reads them: its own pending writes when
\* its connection holds the write lock, else the committed tables.
View(r) == IF writer = r THEN runs[r].conn ELSE db

\* POST /scrape arrives for run r: start_time, a new BemloClient.
OStart(r) ==
    /\ runs[r].pc = "idle"
    /\ runs[r].started < MaxStarts
    /\ runs' = [runs EXCEPT ![r] = [IdleRun(@.started + 1) EXCEPT !.pc = "login",
                                                                  !.start_time = now]]
    /\ clients' = [clients EXCEPT ![ClientOf(r)] = <<>>]
    /\ UNCHANGED <<now, db, scrape_logs, writer>>
    /\ Apart

\* scrape: client.login()
OLogin(r) ==
    /\ runs[r].pc = "login"
    /\ \E res \in LoginResults(clients[ClientOf(r)], now, Shared) :
         /\ clients' = [clients EXCEPT ![ClientOf(r)] = res.tokens]
         /\ runs' = [runs EXCEPT ![r] = [@ EXCEPT !.seen = clients[ClientOf(r)],
                                                  !.held = res.tokens,
                                                  !.error = res.error,
                                                  !.pc = IF Raised(res) THEN "except"
                                                         ELSE "fetch"]]
    /\ UNCHANGED <<now, db, scrape_logs, writer>>
    /\ Apart

\* scrape: client.fetch_all_vacancies(), one page with hasNextPage false.
OFetch(r) ==
    /\ runs[r].pc = "fetch"
    /\ \E res \in make_request(clients[ClientOf(r)], now, "list", "", Shared) :
         /\ clients' = [clients EXCEPT ![ClientOf(r)] = res.tokens]
         /\ runs' = [runs EXCEPT ![r] =
                        IF Raised(res)
                        THEN [@ EXCEPT !.seen = clients[ClientOf(r)], !.held = res.tokens,
                                       !.error = res.error, !.pc = "except"]
                        ELSE [@ EXCEPT !.seen = clients[ClientOf(r)], !.held = res.tokens,
                                       !.vacancies = NodesOf(res.body[1].edges),
                                       !.idx = 1, !.pc = "select"]]
    /\ UNCHANGED <<now, db, scrape_logs, writer>>
    /\ Apart

\* process_vacancies: the SELECT of a turn of the for loop.
OSelect(r) ==
    /\ runs[r].pc = "select"
    /\ runs[r].idx <= Len(runs[r].vacancies)
    /\ runs' = [runs EXCEPT ![r] =
                   [@ EXCEPT !.existing =
                                 View(r).vacancies[runs[r].vacancies[runs[r].idx].id],
                             !.pc = "save"]]
    /\ UNCHANGED <<now, db, scrape_logs, writer, clients>>
    /\ Apart

\* process_vacancies: the rest of the turn, on the row the SELECT returned.
\* save_vacancy needs the write lock; an unchanged record writes nothing.
OSave(r) ==
    /\ runs[r].pc = "save"
    /\ LET vacancy == runs[r].vacancies[runs[r].idx]
           existing == runs[r].existing
           is_new == existing = <<>>
           is_update == ~is_new /\ changed(existing[1], vacancy)
       IN /\ (is_new \/ is_update) => writer \in {0, r}
          /\ writer' = IF is_new \/ is_update THEN r ELSE writer
          /\ runs' = [runs EXCEPT ![r] =
                [@ EXCEPT !.conn = IF is_new \/ is_update
                                   THEN save_vacancy(View(r), vacancy, is_new, now)
                                   ELSE @,
                          !.counts = [@ EXCEPT
                              !.new_count = @ + (IF is_new THEN 1 ELSE 0),
                              !.updated_count = @ + (IF is_update THEN 1 ELSE 0),
                              !.unchanged_count = @ + (IF is_new \/ is_update THEN 0 ELSE 1)],
                          !.classes = Append(@, [id |-> vacancy.id,
                                                 class |-> IF is_new THEN "New"
                                                           ELSE IF is_update THEN "Updated"
                                                           ELSE "Unchanged"]),
                          !.existing = <<>>,
                          !.idx = @ + 1,
                          !.pc = "select"]]
    /\ UNCHANGED <<now, db, scrape_logs, clients>>
    /\ Apart

\* process_vacancies: save_vacancy raises, the other run's connection having
\* held the write lock for the whole busy timeout.
OSaveLocked(r) ==
    /\ runs[r].pc = "save"
    /\ writer \notin {0, r}
    /\ IF runs[r].existing = <<>> THEN TRUE
       ELSE changed(runs[r].existing[1], runs[r].vacancies[runs[r].idx])
    /\ runs' = [runs EXCEPT ![r] = [@ EXCEPT !.pc = "except",
                                             !.error = "database is locked"]]
    /\ UNCHANGED <<now, db, scrape_logs, writer, clients>>
    /\ Apart

\* process_vacancies: conn.commit() after the loop.
OCommit(r) ==
    /\ runs[r].pc = "select"
    /\ runs[r].idx > Len(runs[r].vacancies)
    /\ db' = View(r)
    /\ writer' = IF writer = r THEN 0 ELSE writer
    /\ runs' = [runs EXCEPT ![r] = [@ EXCEPT !.pc = "log"]]
    /\ UNCHANGED <<now, scrape_logs, clients>>
    /\ Apart

\* scrape: the INSERT into scrape_logs and its commit, and the response.
OLog(r) ==
    /\ runs[r].pc = "log"
    /\ writer = 0
    /\ scrape_logs' = Append(scrape_logs,
                             LogRow(runs[r].start_time, Len(runs[r].vacancies),
                                    runs[r].counts, ""))
    /\ runs' = [runs EXCEPT ![r] = IdleRun(@.started)]
    /\ UNCHANGED <<now, db, writer, clients>>
    /\ Apart

\* scrape: the INSERT into scrape_logs raises, the other run's connection
\* having held the write lock for the whole busy timeout.
OLogLocked(r) ==
    /\ runs[r].pc = "log"
    /\ writer # 0
    /\ runs' = [runs EXCEPT ![r] = [@ EXCEPT !.pc = "except",
                                             !.error = "database is locked"]]
    /\ UNCHANGED <<now, db, scrape_logs, writer, clients>>
    /\ Apart

\* scrape: the except branch logs the failure and answers 500.
OExcept(r) ==
    /\ runs[r].pc = "except"
    /\ writer = 0
    /\ scrape_logs' = Append(scrape_logs,
                             LogRow(runs[r].start_time, 0, ZeroCounts, runs[r].error))
    /\ runs' = [runs EXCEPT ![r] = IdleRun(@.started)]
    /\ UNCHANGED <<now, db, writer, clients>>
    /\ Apart

\* scrape: the INSERT of the except branch raises in its turn, and scrape
\* raises with no row logged.
OExceptLocked(r) ==
    /\ runs[r].pc = "except"
    /\ writer # 0
    /\ runs' = [runs EXCEPT ![r] = IdleRun(@.started)]
    /\ UNCHANGED <<now, db, scrape_logs, writer, clients>>
    /\ Apart

NextOverlap ==
    \/ Tick
    \/ \E r \in Runs : OStart(r)
    \/ \E r \in Runs : OLogin(r)
    \/ \E r \in Runs : OFetch(r)
    \/ \E r \in Runs : OSelect(r)
    \/ \E r \in Runs : OSave(r)
    \/ \E r \in Runs : OSaveLocked(r)
    \/ \E r \in Runs : OCommit(r)
    \/ \E r \in Runs : OLog(r)
    \/ \E r \in Runs : OLogLocked(r)
    \/ \E r \in Runs : OExcept(r)
    \/ \E r \in Runs : OExceptLocked(r)

SpecOverlap == Init /\ [][NextOverlap]_vars

(***************************************************************************)
(* What a call did, read off lastCall.                                     *)
(***************************************************************************)
IsPost(e) == e.op = "POST graphql"
Posts(tr) == SelectSeq(tr, IsPost)
\* The refresh() calls of a trace made after its first GraphQL request.
Forced(tr) ==
    {j \in 1..Len(tr) :
        /\ tr[j].op = "refresh()"
        /\ \E k \in 1..(j - 1) : tr[k].op = "POST graphql"}
LoginErrors == {"Login failed", "No access token in login response"}
FirstUnauthorized ==
    /\ lastCall.op = "_make_request"
    /\ Posts(lastCall.trace) # <<>>
    /\ Posts(lastCall.trace)[1].status = 401

\* C1 as stated: a 401 on the first GraphQL response causes exactly one forced
\* refresh and exactly one retry, so exactly two GraphQL requests are sent; a
\* 401 on the retry ends the call in an error.
C1_AlwaysRetries ==
    FirstUnauthorized =>
        /\ Cardinality(Forced(lastCall.trace)) = 1
        /\ Len(Posts(lastCall.trace)) = 2
        /\ Posts(lastCall.trace)[2].status = 401 => lastCall.error # ""

\* C1, amended: a 401 on the first GraphQL response causes exactly one forced
\* refresh; the request is retried exactly once, with the access token the
\* refresh left, when that refresh returns, and not at all when the refresh
\* (its fallback login) raises; a retry answered by anything but 200 ends the
\* call in an error; no _make_request call sends more than two GraphQL requests.
C1_OneRefreshOneRetry ==
    /\ lastCall.op = "_make_request" => Len(Posts(lastCall.trace)) <= 2
    /\ FirstUnauthorized =>
         /\ Cardinality(Forced(lastCall.trace)) = 1
         /\ Len(Posts(lastCall.trace)) = 1 <=> lastCall.error \in LoginErrors
         /\ Len(Posts(lastCall.trace)) = 2 =>
              /\ Posts(lastCall.trace)[2].q = Posts(lastCall.trace)[1].q
              /\ Posts(lastCall.trace)[2].arg = Posts(lastCall.trace)[1].arg
              /\ Posts(lastCall.trace)[2].tok = tokens[1].access_token
              /\ Posts(lastCall.trace)[2].status # 200 <=>
                     lastCall.error = "GraphQL request failed"

\* The retry of a request first answered 401 is answered 401 too, and the call
\* has raised.
C1_Witness ==
    /\ FirstUnauthorized
    /\ Len(Posts(lastCall.trace)) = 2
    /\ Posts(lastCall.trace)[2].status = 401
    /\ lastCall.error = "GraphQL request failed"

\* A call of ensure_valid_token, alone or as the first step of _make_request,
\* with tokens held: it invoked refresh() iff its trace starts with refresh().
Ensured == lastCall.op \in {"ensure_valid_token", "_make_request"} /\ lastCall.before # <<>>
InvokedRefresh == lastCall.trace # <<>> /\ lastCall.trace[1].op = "refresh()"

RefreshRefused ==
    /\ lastCall.op = "refresh"
    /\ Len(lastCall.trace) >= 2
    /\ lastCall.trace[2].op = "POST refresh"
    /\ lastCall.trace[2].status # 200

\* C10: when refresh() holds a refresh token and the refresh endpoint answers
\* with a non-success status, refresh() performs login() and returns its
\* result: it raises only an error of that login, and when it returns the
\* tokens held are those of the sign-in response.
C10_RefreshFallsBackToLogin ==
    RefreshRefused =>
        /\ Len(lastCall.trace) = 4
        /\ lastCall.trace[3].op = "login()"
        /\ lastCall.trace[4].op = "POST signin"
        /\ lastCall.error \in LoginErrors \cup {""}
        /\ lastCall.trace[4].status # 200 => lastCall.error = "Login failed"
        /\ lastCall.error = "" =>
              /\ tokens # <<>>
              /\ tokens[1].access_token # NoAccess
              /\ \E l \in Identity.login :
                    l.ok /\ tokens[1] = from_headers(l.headers, lastCall.at)

\* The refresh endpoint answered 500 and refresh() returned with new tokens.
C10_Witness ==
    /\ RefreshRefused
    /\ lastCall.trace[2].status = 500
    /\ lastCall.error = ""
    /\ tokens # lastCall.before

(***************************************************************************)
(* What a turn of the loop of process_vacancies did, read off a step.      *)
(***************************************************************************)
\* The step is a turn of the loop that classified its record.
Classified == pc = "process" /\ Len(outcomes') = Len(outcomes) + 1
\* The step is a turn of the loop on a record whose id has a row.
Reclassified == Classified /\ conn.vacancies[all_vacancies[idx].id] # <<>>

\* C3 as stated: fetch_all_vacancies makes at most maxPages page fetches,
\* whatever the source reports: page, the number of page fetches the
\* traversal under way has made, never exceeds maxPages.
C3_AtMostMaxPages == page <= maxPages

\* C4 as stated: a record reconciled again as it was last reconciled is
\* classified Unchanged, and an id classified before is never classified New
\* again, in one run or across runs.
C4_Idempotent ==
    [][Classified =>
         /\ reconciled[all_vacancies[idx].id] # <<>> =>
                outcomes'[Len(outcomes')].class # "New"
         /\ reconciled[all_vacancies[idx].id] = <<all_vacancies[idx]>> =>
                outcomes'[Len(outcomes')].class = "Unchanged"]_vars

\* C5: first_seen_at of a row is the time of the turn that classified its id
\* New, no turn of the loop on an id that has a row changes it, and the
\* first_seen_at of a committed row never changes.
C5_FirstSeenKept ==
    [][/\ Classified =>
            LET id == all_vacancies[idx].id IN
            /\ conn'.vacancies[id] # <<>>
            /\ outcomes'[Len(outcomes')].class = "New" =>
                   conn'.vacancies[id][1].first_seen_at = now
            /\ outcomes'[Len(outcomes')].class \in {"Updated", "Unchanged"} =>
                   /\ conn.vacancies[id] # <<>>
                   /\ conn'.vacancies[id][1].first_seen_at
                        = conn.vacancies[id][1].first_seen_at
       /\ \A i \in Ids :
            db.vacancies[i] # <<>> =>
                /\ db'.vacancies[i] # <<>>
                /\ db'.vacancies[i][1].first_seen_at = db.vacancies[i][1].first_seen_at]_vars

\* A row first seen at an earlier time has been saved again by a turn
\* classified Updated.
C5_Witness ==
    \E j \in 1..Len(outcomes) :
        /\ outcomes[j].class = "Updated"
        /\ conn.vacancies[outcomes[j].id] # <<>>
        /\ conn.vacancies[outcomes[j].id][1].last_updated_at = now
        /\ conn.vacancies[outcomes[j].id][1].first_seen_at < now

\* C6 as stated: a record whose id has a row is classified Updated iff its
\* fill rate, its status or its procured amount differs from the row, and
\* Unchanged otherwise.
C6_VolatileFields ==
    [][Reclassified =>
         LET vacancy == all_vacancies[idx]
             existing == conn.vacancies[vacancy.id][1]
             differs == \/ existing.fill_rate # vacancy.fillRate
                        \/ existing.dynamic_status # vacancy.dynamicStatus
                        \/ existing.procured_amount # vacancy.procuredAmount
         IN /\ differs => outcomes'[Len(outcomes')].class = "Updated"
            /\ ~differs => outcomes'[Len(outcomes')].class = "Unchanged"]_vars

\* C7 as stated: a field is listed among the changes reported for an Updated
\* record only if its old and new values differ.
C7_OnlyDifferingListed ==
    \A j \in 1..Len(updates) :
        \A f \in DOMAIN updates[j].changes :
            updates[j].changes[f].old # updates[j].changes[f].new

\* C7, amended: the changes reported for a record classified Updated list both
\* compared fields, fill_rate and status, each with the value of the row as
\* old and the value of the incoming record as new, whether or not the two
\* differ; at least one of the two fields differs, and no report is made for a
\* record classified otherwise.
C7_BothFieldsOldNew ==
    [][Classified =>
         LET vacancy == all_vacancies[idx] IN
         IF outcomes'[Len(outcomes')].class = "Updated"
         THEN /\ Len(updates') = Len(updates) + 1
              /\ SubSeq(updates', 1, Len(updates)) = updates
              /\ LET u == updates'[Len(updates')]
                     existing == conn.vacancies[vacancy.id][1]
                 IN /\ u.id = vacancy.id
                    /\ DOMAIN u.changes = {"fill_rate", "status"}
                    /\ u.changes.fill_rate.old = existing.fill_rate
                    /\ u.changes.fill_rate.new = vacancy.fillRate
                    /\ u.changes.status.old = existing.dynamic_status
                    /\ u.changes.status.new = vacancy.dynamicStatus
                    /\ \/ u.changes.fill_rate.old # u.changes.fill_rate.new
                       \/ u.changes.status.old # u.changes.status.new
         ELSE updates' = updates]_vars

\* The fill rate alone went from 5 to 8: the report lists fill_rate 5 -> 8 and
\* status with equal old and new values.
C7_Witness ==
    \E j \in 1..Len(updates) :
        /\ updates[j].changes.fill_rate = [old |-> 5, new |-> 8]
        /\ updates[j].changes.status.old = updates[j].changes.status.new

\* The step is a page fetch of fetch_all_vacancies that ended in an exception.
PageFailed ==
    /\ pc = "fetch"
    /\ lastCall'.op = "_make_request"
    /\ lastCall'.error # "" \/ lastCall'.returned = "nulldata"

C9_ErrorsBodyRaises ==
    lastCall.op = "_make_request" =>
        /\ lastCall.returned \notin {"errors", "nulldata"}
        /\ ~(pc = "process" /\ lastCall.returned = "errors")

(***************************************************************************)
(* Further properties of the client methods.                               *)
(***************************************************************************)
Ops(tr) == {tr[j].op : j \in 1..Len(tr)}
RefreshCalls(tr) == {j \in 1..Len(tr) : tr[j].op = "refresh()"}

\* C11: refresh() called with no tokens held, or with tokens that hold no
\* refresh token, goes straight to login() and sends nothing to the refresh
\* endpoint.
C11_NoRefreshTokenDelegates ==
    (/\ lastCall.op = "refresh"
     /\ lastCall.before = <<>> \/ lastCall.before[1].refresh_token = "") =>
        /\ Len(lastCall.trace) = 3
        /\ lastCall.trace[1].op = "refresh()"
        /\ lastCall.trace[2].op = "login()"
        /\ lastCall.trace[3].op = "POST signin"
        /\ "POST refresh" \notin Ops(lastCall.trace)

\* Tokens with an access token and no refresh token were held, and refresh()
\* returned after signing in.
C11_Witness ==
    /\ lastCall.op = "refresh"
    /\ lastCall.before # <<>>
    /\ lastCall.before[1].access_token # NoAccess
    /\ lastCall.before[1].refresh_token = ""
    /\ lastCall.trace[3].op = "POST signin"
    /\ lastCall.error = ""

\* refresh() was answered 200 with an access token and returned.
RefreshSucceeded ==
    /\ lastCall.op = "refresh"
    /\ Len(lastCall.trace) = 2
    /\ lastCall.trace[2].op = "POST refresh"
    /\ lastCall.trace[2].status = 200
    /\ lastCall.error = ""

\* C12: after a successful refresh the tokens hold the access token of the
\* response (each response of the service carries its own), the refresh token
\* and the front token of the response where it carries them, and the ones
\* held before the call where it does not.
C12_RefreshMergesHeaders ==
    RefreshSucceeded =>
        \E r \in Identity.refresh :
            /\ r.status = 200
            /\ r.headers.access # NoAccess
            /\ tokens[1].access_token = r.headers.access
            /\ tokens[1].refresh_token =
                   IF r.headers.refresh # "" THEN r.headers.refresh
                   ELSE lastCall.before[1].refresh_token
            /\ tokens[1].front_token =
                   IF r.headers.front # "" THEN r.headers.front
                   ELSE lastCall.before[1].front_token

\* The response carried a front token and no refresh token: the refresh token
\* held before is kept and the front token is replaced.
C12_Witness ==
    /\ RefreshSucceeded
    /\ tokens[1].access_token = Jwt(61)
    /\ tokens[1].refresh_token = lastCall.before[1].refresh_token
    /\ tokens[1].front_token = "f2"
    /\ lastCall.before[1].front_token # "f2"

\* _make_request was called with tokens outside the expiry buffer, its first
\* request was answered 401 and its retry 200.
RetrySucceeded ==
    /\ FirstUnauthorized
    /\ lastCall.before # <<>>
    /\ ~is_expired(lastCall.before[1], lastCall.at)
    /\ Len(Posts(lastCall.trace)) = 2
    /\ Posts(lastCall.trace)[2].status = 200

\* C13: with tokens outside the expiry buffer, a first response 401 and a
\* retried response 200, _make_request returns the body of the retried
\* response, refresh() was called exactly once during the call, and the
\* retried request carries the access token held after that refresh.
C13_RetryReturnsPayload ==
    RetrySucceeded =>
        /\ lastCall.error = ""
        /\ lastCall.returned \in {b.kind : b \in {g.body : g \in
                                    {x \in Identity.gql["list"] : x.status = 200}}}
        /\ Cardinality(RefreshCalls(lastCall.trace)) = 1
        /\ lastCall.trace[1].op = "POST graphql"
        /\ lastCall.trace[2].op = "refresh()"
        /\ lastCall.trace[Len(lastCall.trace)].op = "POST graphql"
        /\ Posts(lastCall.trace)[1].tok = lastCall.before[1].access_token
        /\ Posts(lastCall.trace)[2].tok = tokens[1].access_token

\* The retry, sent with another access token than the rejected one, returned
\* a data body.
C13_Witness ==
    /\ RetrySucceeded
    /\ lastCall.returned = "data"
    /\ Posts(lastCall.trace)[2].tok # Posts(lastCall.trace)[1].tok

\* C14: a GraphQL response with a status other than 200 and 401 ends
\* _make_request in an error at once: the request it answers is the last thing
\* the call does, and a first request so answered is followed by no refresh,
\* no login and no second request.
C14_OtherStatusRaises ==
    (lastCall.op = "_make_request" /\ Posts(lastCall.trace) # <<>>) =>
        LET posts == Posts(lastCall.trace) IN
        /\ posts[Len(posts)].status \notin {200, 401} =>
               /\ lastCall.error = "GraphQL request failed"
               /\ lastCall.returned = ""
               /\ lastCall.trace[Len(lastCall.trace)].op = "POST graphql"
        /\ posts[1].status \notin {200, 401} =>
               /\ Len(posts) = 1
               /\ Forced(lastCall.trace) = {}

\* The only thing the call did was a request answered 500, and it raised.
C14_Witness ==
    /\ lastCall.op = "_make_request"
    /\ Len(lastCall.trace) = 1
    /\ lastCall.trace[1].op = "POST graphql"
    /\ lastCall.trace[1].status = 500
    /\ lastCall.error = "GraphQL request failed"

\* C15: login() raises when the sign-in endpoint answers with a status other
\* than 200 or with a body whose status is not "OK", and the tokens held
\* before the call are then still held.
C15_FailedLoginKeepsTokens ==
    /\ \A l \in Identity.login :
          (l.status # 200 \/ ~l.ok) =>
              /\ login(tokens, l, now).error = "Login failed"
              /\ login(tokens, l, now).tokens = tokens
    /\ lastCall.op = "login" =>
          /\ lastCall.trace[2].status # 200 => lastCall.error = "Login failed"
          /\ lastCall.error = "Login failed" => tokens = lastCall.before

\* Tokens were held, the sign-in was answered 200 with a body that is not OK,
\* login() raised and the tokens are the ones held before.
C15_Witness ==
    /\ lastCall.op = "login"
    /\ lastCall.before # <<>>
    /\ lastCall.trace[2].status = 200
    /\ lastCall.error = "Login failed"
    /\ tokens = lastCall.before

(***************************************************************************)
(* Further properties of a scrape run.                                     *)
(***************************************************************************)
\* The outcome a classifying step appends.
Appended == outcomes'[Len(outcomes')]
\* The step ends a run in the except branch of scrape.
RunFailed == pc \in {"login", "fetch", "process"} /\ pc' = "idle"
\* The row a step appends to scrape_logs.
Logged == scrape_logs'[Len(scrape_logs')]

\* C16: a turn of the loop that classifies its record Unchanged writes
\* nothing: the row of the record, last_updated_at included, and every other
\* row of the connection are the same before and after.
C16_UnchangedWritesNothing ==
    [][(Classified /\ Appended.class = "Unchanged") =>
          /\ conn.vacancies[all_vacancies[idx].id] # <<>>
          /\ conn'.vacancies[all_vacancies[idx].id] = conn.vacancies[all_vacancies[idx].id]
          /\ conn' = conn
          /\ ~Appended.detail]_vars

\* A record was classified Unchanged in a run that started after its row was
\* last written, and the row still bears the earlier time.
C16_Witness ==
    \E j \in 1..Len(outcomes) :
        /\ outcomes[j].class = "Unchanged"
        /\ conn.vacancies[outcomes[j].id] # <<>>
        /\ conn.vacancies[outcomes[j].id][1].last_updated_at < start_time

\* C17: a try block that ends in an exception does not end the run: the
\* record keeps its classification New or Updated and the row save_vacancy
\* wrote for it, the loop goes on with the next record and nothing is logged;
\* a run whose loop reaches the end of the list has classified every record
\* fetched and is logged without an error.
C17_DetailFailureSkipped ==
    [][/\ (Classified /\ Appended.error # "") =>
            /\ Appended.detail
            /\ Appended.class \in {"New", "Updated"}
            /\ Appended.id = all_vacancies[idx].id
            /\ conn'.vacancies[Appended.id] # <<>>
            /\ conn'.vacancies[Appended.id][1].fill_rate = all_vacancies[idx].fillRate
            /\ conn'.vacancies[Appended.id][1].dynamic_status
                 = all_vacancies[idx].dynamicStatus
            /\ conn'.vacancies[Appended.id][1].last_updated_at = now
            /\ pc' = "process"
            /\ idx' = idx + 1
            /\ counts'.new_count + counts'.updated_count
                 = counts.new_count + counts.updated_count + 1
            /\ scrape_logs' = scrape_logs
       /\ (pc = "process" /\ pc' = "respond") =>
            /\ Len(outcomes) = Len(all_vacancies)
            /\ \A j \in 1..Len(outcomes) : outcomes[j].id = all_vacancies[j].id
            /\ Logged.error = ""
            /\ Logged.total_fetched = Len(all_vacancies)
            /\ \A j \in 1..Len(outcomes) :
                   outcomes[j].class # "Unchanged" => db'.vacancies[outcomes[j].id] # <<>>]_vars

\* The try block of the first of two records ended in an exception, the second
\* was reconciled, and the run is logged without an error.
C17_Witness ==
    /\ pc = "respond"
    /\ Len(outcomes) = 2
    /\ outcomes[1].error # ""
    /\ outcomes[1].class = "New"
    /\ db.vacancies[outcomes[1].id] # <<>>
    /\ scrape_logs[Len(scrape_logs)].error = ""
    /\ scrape_logs[Len(scrape_logs)].new_count + scrape_logs[Len(scrape_logs)].updated_count
         >= 1

\* C18 as stated: after a try block that ended without an exception, the
\* requirements, price groups and shifts stored for the record are exactly
\* those of the bodies fetched, and those of every other record are as before.
C18_ChildRowsReplaced ==
    [][(Classified /\ Appended.detail /\ Appended.error = "") =>
          /\ conn'.requirements[Appended.id] = Appended.rows.requirements
          /\ conn'.price_groups[Appended.id] = Appended.rows.price_groups
          /\ conn'.shifts[Appended.id] = Appended.rows.shifts
          /\ \A i \in Ids \ {Appended.id} :
                /\ conn'.requirements[i] = conn.requirements[i]
                /\ conn'.price_groups[i] = conn.price_groups[i]
                /\ conn'.shifts[i] = conn.shifts[i]]_vars

\* C19 as stated: a run that fails after fetching or reconciling has started
\* is logged with an error message and the counts reached so far.
C19_PartialCounts ==
    [][(RunFailed /\ pc \in {"fetch", "process"}) =>
          /\ Len(scrape_logs') = Len(scrape_logs) + 1
          /\ Logged.error # ""
          /\ Logged.total_fetched = Len(all_vacancies)
          /\ Logged.new_count >= counts.new_count
          /\ Logged.updated_count >= counts.updated_count]_vars

\* C20 as stated: a run appends exactly one row to scrape_logs, at the step
\* that ends it, whether in the except branch or after process_vacancies; no
\* other step changes scrape_logs, and no step changes or removes a row logged
\* before.
C20_OneLogRowPerRun ==
    [][/\ SubSeq(scrape_logs', 1, Len(scrape_logs)) = scrape_logs
       /\ IF pc \in {"login", "fetch", "process"} /\ pc' \in {"idle", "respond"}
          THEN Len(scrape_logs') = Len(scrape_logs) + 1
          ELSE scrape_logs' = scrape_logs
       /\ pc = "idle" => pc' \in {"idle", "login"}
       /\ pc = "respond" => pc' \in {"respond", "idle"}
       /\ (pc \in {"login", "fetch", "process"} /\ pc' = "respond") => Logged.error = ""
       /\ RunFailed => Logged.error # ""]_vars

(***************************************************************************)
(* Detail fetching, pagination and the order of the steps of a run.        *)
(***************************************************************************)
\* C21 as stated: the try block is entered for every record classified New or
\* Updated and for no record classified Unchanged.
C21_DetailsForNewAndUpdated ==
    [][Classified => (Appended.detail <=> Appended.class \in {"New", "Updated"})]_vars

\* C21, amended: the try block is entered for a record classified New that
\* has a tender id, for a record classified Updated that has a tender id and
\* whose status differs from the row, and for no other record: not for an
\* Unchanged one, and not for one Updated by its fill rate alone.
C21_DetailsWhenStatusChanged ==
    [][Classified =>
         LET vacancy == all_vacancies[idx] IN
         Appended.detail <=>
             /\ vacancy.tender_id # ""
             /\ \/ Appended.class = "New"
                \/ /\ Appended.class = "Updated"
                   /\ conn.vacancies[vacancy.id][1].dynamic_status
                        # vacancy.dynamicStatus]_vars

\* A record with a tender id was classified Updated, by its fill rate, and no
\* detail fetch was attempted for it.
C21_Witness ==
    \E j \in 1..Len(outcomes) :
        /\ outcomes[j].class = "Updated"
        /\ ~outcomes[j].detail
        /\ all_vacancies[j].tender_id # ""
        /\ \E k \in 1..Len(updates) :
              /\ updates[k].id = outcomes[j].id
              /\ updates[k].changes.fill_rate.old # updates[k].changes.fill_rate.new

\* The step is a page fetch that returned a body with data.
PageFetched ==
    /\ pc = "fetch"
    /\ lastCall'.op = "_make_request"
    /\ lastCall'.error = ""
    /\ lastCall'.returned = "data"
\* The non-empty nodes of the edges i.. of a page, in order.
RECURSIVE NodesFrom(_, _)
NodesFrom(edges, i) ==
    IF i > Len(edges) THEN <<>>
    ELSE (IF edges[i] = <<>> THEN <<>> ELSE <<edges[i][1]>>) \o NodesFrom(edges, i + 1)

\* C22: a page fetch appends the records of the page, in the order of the
\* page, to the records of the pages before it, which stay as they are; a
\* record listed before is appended again, and the list handed to
\* process_vacancies is the one so collected.
C22_ConcatenationInOrder ==
    [][/\ PageFetched =>
            /\ pc' \in {"fetch", "process"}
            /\ all_vacancies' = all_vacancies \o NodesFrom(lastCall'.body[1].edges, 1)
       /\ pc = "process" /\ pc' \in {"process", "respond"} =>
            all_vacancies' = all_vacancies]_vars

\* Two pages listed the same record and it is in the list twice.
C22_Witness ==
    /\ pc = "fetch"
    /\ page = 2
    /\ Len(all_vacancies) = 2
    /\ all_vacancies[1] = all_vacancies[2]

\* C23: the first page request of a traversal carries no cursor, every later
\* one carries the endCursor of the page before it, and the traversal ends,
\* with no further page request, at the first page whose hasNextPage is not
\* true.
C23_CursorChain ==
    [][/\ (pc = "fetch" /\ page = 0) => after = ""
       /\ (pc = "fetch" /\ lastCall'.op = "_make_request") =>
            \A j \in 1..Len(lastCall'.trace) :
                lastCall'.trace[j].op = "POST graphql" =>
                    lastCall'.trace[j].q = "list" /\ lastCall'.trace[j].arg = after
       /\ PageFetched =>
            IF lastCall'.body[1].hasNextPage = "true"
            THEN /\ pc' = "fetch"
                 /\ page' = page + 1
                 /\ after' = lastCall'.body[1].endCursor
            ELSE pc' = "process"
       /\ pc = "process" => pc' # "fetch"
       /\ pc = "process" =>
            (lastCall'.op = "_make_request" =>
                 \A j \in 1..Len(lastCall'.trace) : lastCall'.trace[j].q # "list")]_vars

\* The second page request of a traversal carried the cursor of the first
\* page, and was answered by a page without a hasNextPage flag.
C23_Witness ==
    /\ pc = "process"
    /\ lastCall.op = "_make_request"
    /\ lastCall.error = ""
    /\ lastCall.returned = "data"
    /\ lastCall.body[1].hasNextPage = "absent"
    /\ Posts(lastCall.trace)[1].arg = "c1"
    /\ Posts(lastCall.trace)[1].q = "list"

\* C26: the steps of a run follow one another: records are collected only by
\* page fetches, the loop of process_vacancies starts only when a page fetch
\* has returned a page whose hasNextPage is not true, a turn of the loop
\* reconciles the record at idx, its try block included, and moves to idx + 1,
\* and the list is not changed while the loop runs.
C26_Sequential ==
    [][/\ all_vacancies' # all_vacancies =>
            \/ PageFetched
            \/ pc' = "idle"
       /\ (pc # "process" /\ pc' = "process") =>
            /\ pc = "fetch"
            /\ lastCall'.op = "_make_request"
            /\ lastCall'.error = ""
            /\ lastCall'.returned = "data" => lastCall'.body[1].hasNextPage # "true"
            /\ idx' = 1
            /\ outcomes' = <<>>
       /\ (conn' # conn \/ outcomes' # outcomes) =>
            \/ pc = "process" /\ idx <= Len(all_vacancies)
            \/ pc' \in {"idle", "process"} /\ outcomes' = <<>>
       /\ Classified =>
            /\ Len(outcomes) = idx - 1
            /\ Appended.id = all_vacancies[idx].id
            /\ idx' = idx + 1
            /\ all_vacancies' = all_vacancies
            /\ Appended.detail =>
                   /\ lastCall'.op = "_make_request"
                   /\ \A j \in 1..Len(lastCall'.trace) :
                         lastCall'.trace[j].op = "POST graphql" =>
                             lastCall'.trace[j].q \in {"detail", "schedule"}]_vars

\* Two pages were fetched and both their records reconciled, the second with
\* its detail fetch, in the order of the pages.
C26_Witness ==
    /\ pc = "process"
    /\ idx = 3
    /\ Len(outcomes) = 2
    /\ outcomes[1].id = "v2"
    /\ outcomes[2].id = "v1"
    /\ outcomes[2].detail
    /\ outcomes[2].error = ""

\* C28 as stated: a turn that classifies its record Updated and makes no
\* detail fetch leaves the detail columns of the row as they were stored.
C28_DetailColumnsKept ==
    [][(Classified /\ Appended.class = "Updated" /\ ~Appended.detail) =>
          conn'.vacancies[Appended.id][1].details
            = conn.vacancies[Appended.id][1].details]_vars

SignedIn == lastCall.op \in {"login", "refresh"} /\ lastCall.error = ""

\* C24 as stated: after login() or refresh() returns, expires_at is the exp
\* claim of the new access token when its payload decodes to one, and
\* now + 3600 in every other case.
C24_DefaultWheneverNoExpiry ==
    SignedIn =>
        tokens[1].expires_at =
            IF tokens[1].access_token.kind = "jwt" THEN tokens[1].access_token.exp
            ELSE lastCall.at + DefaultLifetime

\* C24, amended: after login() or refresh() returns, expires_at is the exp
\* claim of the new access token when its payload decodes and carries one, 0
\* when the payload decodes and carries no exp claim, and now + 3600 when the
\* payload cannot be decoded.
C24_ExpiryDecoded ==
    SignedIn =>
        /\ tokens # <<>>
        /\ tokens[1].access_token # NoAccess
        /\ tokens[1].expires_at =
              CASE tokens[1].access_token.kind = "jwt" -> tokens[1].access_token.exp
                [] tokens[1].access_token.kind = "noexp" -> 0
                [] OTHER -> lastCall.at + DefaultLifetime

\* At time 1 a refresh answered with an access token that cannot be decoded
\* left tokens that expire at 3601.
C24_Witness ==
    /\ SignedIn
    /\ lastCall.op = "refresh"
    /\ lastCall.at = 1
    /\ tokens[1].access_token = Opaque
    /\ tokens[1].expires_at = 1 + DefaultLifetime

\* C27 as stated: the tokens a client holds always carry an access token, and
\* a login() that raises leaves the tokens held before it.
C27_AccessTokenHeld ==
    /\ tokens # <<>> => tokens[1].access_token # NoAccess
    /\ (lastCall.op = "login" /\ lastCall.error # "") => tokens = lastCall.before

(***************************************************************************)
(* Overlapping runs.                                                       *)
(***************************************************************************)
\* Run r takes a step.
Stepped(r) == runs'[r] # runs[r]

\* C25: when runs overlap, a step of one run changes the tokens of no other
\* run's client, and the tokens a run's client holds when its login or its
\* request begins are those the run's own last client call left: no run reads
\* tokens that another run has replaced or is replacing.
C25_CredentialPerRun ==
    [][\A r \in Runs :
          Stepped(r) =>
             /\ \A q \in Runs \ {r} : clients'[q] = clients[q]
             /\ runs[r].pc \in {"login", "fetch"} => runs'[r].seen = runs[r].held]_vars

\* A run's request was answered 401 and its client replaced its tokens by a
\* refresh, while the other run, signed in and about to fetch, holds the
\* tokens of its own sign-in.
C25_Witness ==
    \E r \in Runs : \E q \in Runs \ {r} :
       /\ runs[r].pc \in {"select", "save"}
       /\ runs[r].seen # runs[r].held
       /\ clients[r] # <<>>
       /\ clients[r][1].access_token = Jwt(3000)
       /\ runs[q].pc = "fetch"
       /\ clients[q] # <<>>
       /\ clients[q][1].access_token \in {Jwt(1000), Jwt(2000)}
       /\ clients[q] = runs[q].held

\* Run r has classified id i New in the call it is serving.
ClassifiedNew(r, i) ==
    \E k \in 1..Len(runs[r].classes) : runs[r].classes[k] = [id |-> i, class |-> "New"]

\* C30 as stated: of two overlapping runs that fetch the same unknown id at
\* most one classifies it New, and the first_seen_at of a committed row is
\* never replaced.
C30_NewOnceFirstSeenKept ==
    [][/\ \A i \in Ids : ~(ClassifiedNew(1, i)' /\ ClassifiedNew(2, i)')
       /\ \A i \in Ids :
             db.vacancies[i] # <<>> =>
                /\ db'.vacancies[i] # <<>>
                /\ db'.vacancies[i][1].first_seen_at
                     = db.vacancies[i][1].first_seen_at]_vars

=============================================================================
